---- MODULE Spec2Model ----
(***************************************************************************)
(* AgriAssist-AI: the offline cache and query queue (OfflineHandler, on    *)
(* SQLite) and the weather fetch fallback chain (DataFetcher).             *)
(*                                                                         *)
(* Time is counted in ticks.  TicksPerSec ticks make one second and        *)
(* SecPerHour seconds make one hour (both scaled down).  SQLite's          *)
(* CURRENT_TIMESTAMP is UTC text with second resolution; Python's          *)
(* datetime.now() is naive local time with sub-second resolution, stored   *)
(* by the sqlite3 adapter as ISO text.  SQLite compares the two as text.   *)
(***************************************************************************)
EXTENDS Integers, Sequences, FiniteSets, TLC

\* ---------------------------------------------------------------- bounds
MaxTime == 2
MaxTz == 1
MaxTtl == 1
MaxQueries == 3
MaxRows == 2
TicksPerSec == 2
SecPerHour == 1
MaxSessions == 3

\* ---------------------------------------------------------------- inputs
Locations == {"Delhi", "delhi"}
CacheKeys == {"irrigation:Delhi"}
TtlHours == 0..MaxTtl
TzOffsets == (0 - MaxTz)..MaxTz
QueryTexts == {"q"}
Languages == {"en"}
Null == "NULL"
Responses == {"r1", "r2"}
\* Whether, and if so where, the storage layer fails during a handler.
FaultPoints == {"none", "error"}

\* Python values handed to the caches: dicts with string keys.  seqty tells
\* whether the dict holds a tuple, a list or no sequence at all.
Snapshot(src, b, s) == [kind |-> "dict", source |-> src, body |-> b, seqty |-> s]
None == [kind |-> "None", source |-> "", body |-> 0, seqty |-> "none"]
Payloads == {Snapshot("api", 1, "none"), Snapshot("api", 2, "tuple")}

\* json.dumps: a tuple and a list are both written as a JSON array.
JsonDumps(v) == [kind |-> "json", source |-> v.source, body |-> v.body,
                 arr |-> (v.seqty # "none")]

\* json.loads: a JSON array is read back as a list.
JsonLoads(t) == [kind |-> "dict", source |-> t.source, body |-> t.body,
                 seqty |-> IF t.arr THEN "list" ELSE "none"]

\* str.lower() on the location strings of the model.
Lower(s) == IF s = "Delhi" THEN "delhi" ELSE s

\* ---------------------------------------------------------------- clocks
\* SQLite CURRENT_TIMESTAMP: UTC, truncated to the second.
CurrentTimestamp(t) == t \div TicksPerSec

\* datetime.now(): local wall clock, sub-second resolution, in ticks.
DatetimeNow(t, z) == t + z * SecPerHour * TicksPerSec

\* timedelta(hours=h), in ticks.
Timedelta(h) == h * SecPerHour * TicksPerSec

\* sqlite3's datetime adapter: isoformat(" "), seconds and the fraction.
IsoText(d) == [sec |-> d \div TicksPerSec, frac |-> d % TicksPerSec]

\* The instant an ISO text denotes, in ticks.
Instant(e) == e.sec * TicksPerSec + e.frac

\* Text comparison "expires_at > CURRENT_TIMESTAMP": the stored text carries
\* a fractional part (unless it is zero), the right-hand side never does, and
\* a string is greater than each of its proper prefixes.
TextGreater(e, s) == e.sec > s \/ (e.sec = s /\ e.frac # 0)

\* Text comparison "expires_at < CURRENT_TIMESTAMP".
TextLess(e, s) == e.sec < s

\* ---------------------------------------------------------------- state
VARIABLES now, tz, weather_cache, recommendations_cache, queries,
          sqlite_sequence, returned_ids, weather_api_key, backup_weather,
          lastOp, rag_system, ai_enabled, unswept, writers, rebuild

vars == <<now, tz, weather_cache, recommendations_cache, queries,
          sqlite_sequence, returned_ids, weather_api_key, backup_weather,
          lastOp, rag_system, ai_enabled, unswept, writers, rebuild>>

db == <<weather_cache, recommendations_cache, queries, sqlite_sequence>>
env == <<tz, weather_api_key, backup_weather>>
app == <<rag_system, ai_enabled>>
\* The calls in flight: the handler calls of the sessions that share the
\* database file, and a load or build of the retrieval system.
calls == <<writers, rebuild>>

NoOp == [op |-> "init"]

\* The sessions that share the database file.
Sessions == 1..MaxSessions

\* A session that is in no writing call.
NoCall == [op |-> "none", key |-> "", value |-> None, ttl |-> 0, id |-> 0,
           response |-> Null]
NotCalled == [pc |-> "idle", call |-> NoCall, expires_at |-> IsoText(0),
              rowid |-> 0, timestamp |-> 0, outcome |-> "none", ret |-> 0]

\* No load and no build of the retrieval system is running.
NoRebuild == [pc |-> "idle", todo |-> <<>>, files |-> <<>>]

\* app.py: rag_system is None unless a GROQ_API_KEY is configured.
NoRag == [constructed |-> FALSE, documents |-> <<>>,
          index |-> [built |-> FALSE, vectors |-> <<>>]]

\* ---------------------------------------------------------------- SQL
BeforeOrEqual(a, b, desc) == IF desc THEN a.timestamp >= b.timestamp
                             ELSE a.timestamp <= b.timestamp

\* The ORDER BY key of every query of the handler is the timestamp column.
Before(a, b, desc) == IF desc THEN a.timestamp > b.timestamp
                      ELSE a.timestamp < b.timestamp

RECURSIVE InsertSorted(_, _, _)
\* Insert row r into the sorted sequence s behind every row that does not
\* sort after it: rows with equal keys keep their scan order.
InsertSorted(s, r, desc) ==
    IF s = <<>> THEN <<r>>
    ELSE IF Before(r, Head(s), desc) THEN <<r>> \o s
         ELSE <<Head(s)>> \o InsertSorted(Tail(s), r, desc)

RECURSIVE OrderBy(_, _)
\* ORDER BY timestamp as SQLite executes it here: a table scan in rowid
\* order feeding a sorter that keeps rows with equal keys in scan order.
OrderBy(s, desc) ==
    IF s = <<>> THEN <<>>
    ELSE InsertSorted(OrderBy(SubSeq(s, 1, Len(s) - 1), desc), s[Len(s)], desc)

Limit1(s) == IF s = <<>> THEN <<>> ELSE <<Head(s)>>

CommitAnyway(fault, old, new) == new

\* A transaction's effect reaches the database only if no statement and not
\* the commit failed; otherwise the connection is dropped uncommitted.
Commit(fault, old, new) == IF fault = "none" THEN new ELSE old

\* try: ... except Exception: log, return the default.  No handler of the
\* component lets a storage error out.
TryExcept(fault, ok, dflt) == [raised |-> FALSE,
                               ret |-> IF fault = "none" THEN ok ELSE dflt]

\* AUTOINCREMENT: one more than the largest rowid the table ever held.
NextId(table) == sqlite_sequence[table] + 1

Bump(table) == [sqlite_sequence EXCEPT ![table] = @ + 1]

\* weather_cache declares no UNIQUE column: only the fresh rowid can conflict.
WeatherConflict(r, new) == r.id = new.id

\* recommendations_cache declares cache_key UNIQUE.
RecConflict(r, new) == r.id = new.id \/ r.key = new.key

\* INSERT OR REPLACE: delete the rows the new row conflicts with, then insert.
WeatherInsertOrReplace(new) ==
    Append(SelectSeq(weather_cache, LAMBDA r : ~WeatherConflict(r, new)), new)

RecInsertOrReplace(new) ==
    Append(SelectSeq(recommendations_cache, LAMBDA r : ~RecConflict(r, new)), new)

\* The row both cache writers build: the payload as JSON text, the default
\* timestamp, and expires_at = datetime.now() + timedelta(hours=cache_hours).
CacheRow(table, k, v, cache_hours) ==
    [id |-> NextId(table), key |-> k, data |-> JsonDumps(v),
     timestamp |-> CurrentTimestamp(now),
     expires_at |-> IsoText(DatetimeNow(now, tz) + Timedelta(cache_hours))]

\* SELECT ... WHERE key = ? AND expires_at > CURRENT_TIMESTAMP
\* ORDER BY timestamp DESC LIMIT 1; the payload parsed, or None.
SelectCached(table, k) ==
    LET live == SelectSeq(table, LAMBDA r :
                   r.key = k /\ TextGreater(r.expires_at, CurrentTimestamp(now)))
        result == Limit1(OrderBy(live, TRUE))
    IN  IF result # <<>> THEN JsonLoads(result[1].data) ELSE None

DeleteExpiredOrNow(table) ==
    SelectSeq(table, LAMBDA r : ~(r.expires_at.sec <= CurrentTimestamp(now)))

\* DELETE FROM ... WHERE expires_at < CURRENT_TIMESTAMP
DeleteExpired(table) ==
    SelectSeq(table, LAMBDA r : ~TextLess(r.expires_at, CurrentTimestamp(now)))

\* What the last call was and what it returned.
PutOp(c, k, v, h, fault) ==
    [op |-> "put", cache |-> c, key |-> k, value |-> v, ttl |-> h,
     fault |-> fault, raised |-> TryExcept(fault, None, None).raised]

GetOp(c, k, fault, r) ==
    [op |-> "get", cache |-> c, key |-> k, fault |-> fault,
     raised |-> r.raised, ret |-> r.ret]

\* ---------------------------------------------------------------- actions
cache_weather_data(location, weather_data, cache_hours, fault) ==
    /\ LET new == CacheRow("weather_cache", location, weather_data, cache_hours)
       IN  /\ weather_cache' = Commit(fault, weather_cache, WeatherInsertOrReplace(new))
           /\ sqlite_sequence' = Commit(fault, sqlite_sequence, Bump("weather_cache"))
    /\ lastOp' = PutOp("weather", location, weather_data, cache_hours, fault)
    /\ UNCHANGED <<now, env, app, calls, recommendations_cache, queries, returned_ids>>

get_cached_weatherEvict(location, fault) ==
    /\ lastOp' = GetOp("weather", location, fault,
                       TryExcept(fault, SelectCached(weather_cache, location), None))
    /\ weather_cache' =
           Commit(fault, weather_cache,
                  SelectSeq(weather_cache, LAMBDA r :
                     ~(r.key = location
                       /\ ~TextGreater(r.expires_at, CurrentTimestamp(now)))))
    /\ UNCHANGED <<now, env, app, calls, unswept, recommendations_cache, queries,
                   sqlite_sequence, returned_ids>>

get_cached_weather(location, fault) ==
    /\ lastOp' = GetOp("weather", location, fault,
                       TryExcept(fault, SelectCached(weather_cache, location), None))
    /\ UNCHANGED <<now, env, app, calls, unswept, db, returned_ids>>

cache_recommendation(cache_key, recommendation, cache_hours, fault) ==
    /\ LET new == CacheRow("recommendations_cache", cache_key, recommendation, cache_hours)
       IN  /\ recommendations_cache' =
                  Commit(fault, recommendations_cache, RecInsertOrReplace(new))
           /\ sqlite_sequence' =
                  Commit(fault, sqlite_sequence, Bump("recommendations_cache"))
    /\ lastOp' = PutOp("recommendation", cache_key, recommendation, cache_hours, fault)
    /\ UNCHANGED <<now, env, app, calls, weather_cache, queries, returned_ids>>

get_cached_recommendation(cache_key, fault) ==
    /\ lastOp' = GetOp("recommendation", cache_key, fault,
                       TryExcept(fault, SelectCached(recommendations_cache, cache_key), None))
    /\ UNCHANGED <<now, env, app, calls, unswept, db, returned_ids>>

cleanup_expired_cache(fault) ==
    /\ weather_cache' = Commit(fault, weather_cache, DeleteExpired(weather_cache))
    /\ recommendations_cache' =
           Commit(fault, recommendations_cache, DeleteExpired(recommendations_cache))
    /\ lastOp' = [op |-> "sweep", fault |-> fault,
                  raised |-> TryExcept(fault, None, None).raised]
    /\ UNCHANGED <<now, env, app, calls, unswept, queries, sqlite_sequence, returned_ids>>

QueryRowStaleId(query, response, language, intent) ==
    [id |-> IF queries = <<>> THEN 1 ELSE queries[Len(queries)].id,
     query_text |-> query, response_text |-> response,
     language |-> language, intent |-> intent,
     timestamp |-> CurrentTimestamp(now), processed |-> (response # Null)]

QueryRowProcessed(query, response, language, intent) ==
    [id |-> NextId("queries"), query_text |-> query, response_text |-> response,
     language |-> language, intent |-> intent,
     timestamp |-> CurrentTimestamp(now), processed |-> TRUE]

\* INSERT INTO queries (...) VALUES (?, ?, ?, ?, response is not None)
QueryRow(query, response, language, intent) ==
    [id |-> NextId("queries"), query_text |-> query, response_text |-> response,
     language |-> language, intent |-> intent,
     timestamp |-> CurrentTimestamp(now), processed |-> (response # Null)]

store_query(query, response, language, intent, fault) ==
    /\ sqlite_sequence.queries < MaxQueries
    /\ LET new == QueryRow(query, response, language, intent)
           r == TryExcept(fault, new.id, -1)
       IN  /\ queries' = Commit(fault, queries, Append(queries, new))
           /\ sqlite_sequence' = Commit(fault, sqlite_sequence, Bump("queries"))
           /\ returned_ids' = returned_ids \cup {r.ret}
           /\ lastOp' = [op |-> "append", response |-> response, fault |-> fault,
                         raised |-> r.raised, ret |-> r.ret]
    /\ UNCHANGED <<now, env, app, calls, unswept, weather_cache, recommendations_cache>>

\* SELECT id, query_text, language, intent, timestamp FROM queries
\* WHERE processed = FALSE ORDER BY timestamp ASC, one dict per row.
SelectUnprocessed ==
    LET results == OrderBy(SelectSeq(queries, LAMBDA q : q.processed = FALSE), FALSE)
    IN  [i \in 1..Len(results) |->
            [id |-> results[i].id, query |-> results[i].query_text,
             language |-> results[i].language, intent |-> results[i].intent,
             timestamp |-> results[i].timestamp]]

get_unprocessed_queries(fault) ==
    /\ LET r == TryExcept(fault, SelectUnprocessed, <<>>)
       IN  lastOp' = [op |-> "list", fault |-> fault, raised |-> r.raised, ret |-> r.ret]
    /\ UNCHANGED <<now, env, app, calls, unswept, db, returned_ids>>

UpdateNoWhere(query_id, response) ==
    [i \in 1..Len(queries) |->
        [queries[i] EXCEPT !.response_text = response, !.processed = TRUE]]

UpdatePurge(query_id, response) ==
    SelectSeq(queries, LAMBDA q : q.id # query_id)

\* UPDATE queries SET response_text = ?, processed = TRUE WHERE id = ?
UpdateWhereIdToggle(query_id, response) ==
    [i \in 1..Len(queries) |->
        IF queries[i].id = query_id
        THEN [queries[i] EXCEPT !.response_text = response,
                                !.processed = ~queries[i].processed]
        ELSE queries[i]]

UpdateWhereId(query_id, response) ==
    [i \in 1..Len(queries) |->
        IF queries[i].id = query_id
        THEN [queries[i] EXCEPT !.response_text = response, !.processed = TRUE]
        ELSE queries[i]]

update_query_response(query_id, response, fault) ==
    /\ queries' = Commit(fault, queries, UpdateWhereId(query_id, response))
    /\ lastOp' = [op |-> "attach", id |-> query_id, response |-> response,
                  fault |-> fault, raised |-> TryExcept(fault, None, None).raised,
                  again |-> \E i \in 1..Len(queries) :
                               queries[i].id = query_id /\ queries[i].processed]
    /\ UNCHANGED <<now, env, app, calls, unswept, weather_cache, recommendations_cache,
                   sqlite_sequence, returned_ids>>

\* The wall clock advances by one tick.
Tick ==
    /\ now < MaxTime
    /\ now' = now + 1
    /\ lastOp' = [op |-> "tick"]
    /\ UNCHANGED <<env, app, calls, unswept, db, returned_ids>>

\* ---------------------------------------------------------------- weather fetch
ProviderOutcomes == {"ok", "non2xx", "timeout", "malformed"}
ProviderBodies == {1}

DefaultSnapshot == Snapshot("default", 0, "none")
BackupSnapshot == Snapshot("backup", 0, "none")

\* DataFetcher.get_weather_data: the provider's answer when the key is set and
\* the call returns 200 with a well-formed body; otherwise the backup file's
\* entry for the lower-cased city, otherwise the built-in default.
WeatherResult(city, outcome, body) ==
    IF weather_api_key /\ outcome = "ok" THEN Snapshot("api", body, "none")
    ELSE IF Lower(city) \in backup_weather THEN BackupSnapshot
    ELSE DefaultSnapshot

get_weather_data(city, outcome, body) ==
    /\ lastOp' = [op |-> "fetch", key |-> city, outcome |-> outcome,
                  ret |-> WeatherResult(city, outcome, body)]
    /\ UNCHANGED <<now, env, app, calls, unswept, db, returned_ids>>

\* ---------------------------------------------------------------- text
\* A Python str is the sequence of its code points.
StrEmpty == <<>>
\* "  "
StrBlank == <<32, 32>>
\* "water"
StrWater == <<119, 97, 116, 101, 114>>
\* "I need water for my crop"
StrNeedWater == <<73, 32, 110, 101, 101, 100, 32, 119, 97, 116, 101, 114, 32,
                  102, 111, 114, 32, 109, 121, 32, 99, 114, 111, 112>>
\* "Soil Type: Alluvial."
StrSoilAlluvial == <<83, 111, 105, 108, 32, 84, 121, 112, 101, 58, 32, 65, 108,
                     108, 117, 118, 105, 97, 108, 46>>
\* "Soil Type: Black."
StrSoilBlack == <<83, 111, 105, 108, 32, 84, 121, 112, 101, 58, 32, 66, 108, 97,
                  99, 107, 46>>
\* "Crop: Rice. Season: Kharif."
StrCropRice == <<67, 114, 111, 112, 58, 32, 82, 105, 99, 101, 46, 32, 83, 101,
                 97, 115, 111, 110, 58, 32, 75, 104, 97, 114, 105, 102, 46>>
\* "Government Scheme: PM-KISAN."
StrSchemeKisan == <<71, 111, 118, 101, 114, 110, 109, 101, 110, 116, 32, 83, 99,
                    104, 101, 109, 101, 58, 32, 80, 77, 45, 75, 73, 83, 65, 78, 46>>
\* "Relevant agricultural information:\n\n"
StrContextHeader == <<82, 101, 108, 101, 118, 97, 110, 116, 32, 97, 103, 114,
                      105, 99, 117, 108, 116, 117, 114, 97, 108, 32, 105, 110,
                      102, 111, 114, 109, 97, 116, 105, 111, 110, 58, 10, 10>>
\* "- "
StrDash == <<45, 32>>
\* "\n"
StrNewline == <<10>>

\* str.lower() on ASCII letters; Devanagari has no case.
StrLower(text) == [i \in 1..Len(text) |->
                     IF text[i] \in 65..90 THEN text[i] + 32 ELSE text[i]]

IsSpace(c) == c \in {9, 10, 11, 12, 13, 32}

RECURSIVE SplitFrom(_, _, _)
\* str.split(): the maximal runs of non-whitespace, in order.
SplitFrom(text, i, word) ==
    IF i > Len(text) THEN (IF word = <<>> THEN <<>> ELSE <<word>>)
    ELSE IF IsSpace(text[i])
         THEN (IF word = <<>> THEN <<>> ELSE <<word>>) \o SplitFrom(text, i + 1, <<>>)
         ELSE SplitFrom(text, i + 1, Append(word, text[i]))

Split(text) == SplitFrom(text, 1, <<>>)

\* ---------------------------------------------------------------- retrieval
\* RAGSystem.dimension is 1536 and get_embeddings reads the first 100 words;
\* both are scaled down, the word limit below the dimension as in the source.
dimension == 3
EmbedWords == 2
MaxTopK == 5

TopKs == 0..MaxTopK
RagQueries == {StrEmpty, StrBlank, StrWater, StrNeedWater}

Document(content, type, category) ==
    [content |-> content, type |-> type, category |-> category]

\* The data files: unreadable (missing, malformed, an entry without a field
\* the loader reads), or the documents their entries turn into.  The entries
\* of a file are the items of a JSON object, so no entry occurs twice.
Unreadable == <<Document(<<>>, "unreadable", "")>>
DocSoilAlluvial == Document(StrSoilAlluvial, "soil", "alluvial")
DocSoilBlack == Document(StrSoilBlack, "soil", "black")
DocCropRice == Document(StrCropRice, "crop", "rice")
DocSchemeKisan == Document(StrSchemeKisan, "scheme", "pm_kisan")
SoilFiles == {Unreadable, <<>>, <<DocSoilAlluvial>>, <<DocSoilBlack>>,
              <<DocSoilAlluvial, DocSoilBlack>>, <<DocSoilBlack, DocSoilAlluvial>>}
CropFiles == {Unreadable, <<>>, <<DocCropRice>>}
SchemeFiles == {Unreadable, <<>>, <<DocSchemeKisan>>}

\* try: read the three files, documents = soil + crop + scheme documents;
\* except Exception: documents = [].
load_agricultural_data(soil, crop, schemes) ==
    IF Unreadable \in {soil, crop, schemes} THEN <<>> ELSE soil \o crop \o schemes

RECURSIVE SumTo(_, _)
SumTo(v, n) == IF n = 0 THEN 0 ELSE v[n] + SumTo(v, n - 1)
\* Python's sum(emb)
Sum(v) == SumTo(v, Len(v))

RECURSIVE DotTo(_, _, _)
DotTo(a, b, n) == IF n = 0 THEN 0 ELSE a[n] * b[n] + DotTo(a, b, n - 1)
Dot(a, b) == DotTo(a, b, Len(a))

\* One text's vector: component i is the length of word i (in tenths, the
\* source multiplies by 0.1) for the first EmbedWords words, 0.0 elsewhere.
Embedding(text) ==
    LET words == Split(StrLower(text))
    IN  [i \in 1..dimension |->
            IF i <= Len(words) /\ i <= EmbedWords THEN Len(words[i]) ELSE 0]

get_embeddings(texts) == [j \in 1..Len(texts) |-> Embedding(texts[j])]

\* np.random.rand(dimension): some vector of values in [0, 1), in tenths.
RandomVectors == {[i \in 1..dimension |-> 1], [i \in 1..dimension |-> i]}

NoIndex == [built |-> FALSE, vectors |-> <<>>]

build_vector_storeRandom(docs, fault) ==
    IF docs = <<>> \/ fault # "none" THEN {NoIndex}
    ELSE {[built |-> TRUE, vectors |-> r] : r \in [1..Len(docs) -> RandomVectors]}

\* build_vector_store: every index it can leave behind.  No documents: the
\* index stays None.  All embeddings zero: random vectors instead.  An
\* exception: the index is None.
build_vector_store(docs, fault) ==
    IF docs = <<>> \/ fault # "none" THEN {NoIndex}
    ELSE LET embeddings == get_embeddings([j \in 1..Len(docs) |-> docs[j].content])
         IN  IF \A j \in 1..Len(docs) : Sum(embeddings[j]) = 0
             THEN {[built |-> TRUE, vectors |-> r] :
                      r \in [1..Len(docs) -> RandomVectors]}
             ELSE {[built |-> TRUE, vectors |-> embeddings]}

\* RAGSystem.__init__: load, then build.
RAGSystem(soil, crop, schemes, fault) ==
    LET docs == load_agricultural_data(soil, crop, schemes)
    IN  {[constructed |-> TRUE, documents |-> docs, index |-> ix] :
            ix \in build_vector_store(docs, fault)}

\* The inner product of the two L2-normalised vectors, as the square of the
\* cosine (no component is negative, so squares order like the cosines); a
\* zero vector stays zero under normalize_L2.
Cosine(q, d) ==
    IF Dot(q, q) * Dot(d, d) = 0 THEN [num |-> 0, den |-> 1]
    ELSE [num |-> Dot(q, d) * Dot(q, d), den |-> Dot(q, q) * Dot(d, d)]

ScoreGeq(a, b) == a.num * b.den >= b.num * a.den

\* faiss fills the places it has no vector for with label -1 and the lowest
\* score.
NegInf == [num |-> -1, den |-> 1]

\* IndexFlatIP.search(q, k): the k best labels (0-based) with their scores,
\* best first: the head of some order of all the vectors by falling score.
\* The order among equal scores is the library's business.
FaissSearch(ix, q, k) ==
    LET n == Len(ix.vectors)
        m == IF k < n THEN k ELSE n
        sc == [j \in 1..n |-> Cosine(q, ix.vectors[j])]
        tops == {s \in Permutations(1..n) :
                   \A a \in 1..(n - 1) : ScoreGeq(sc[s[a]], sc[s[a + 1]])}
    IN  {[i \in 1..k |-> IF i <= m THEN [idx |-> s[i] - 1, score |-> sc[s[i]]]
                         ELSE [idx |-> -1, score |-> NegInf]] : s \in tops}

\* seq[i] for a 0-based, possibly negative, Python index.
PyIndex(seq, i) == IF i >= 0 THEN seq[i + 1] ELSE seq[Len(seq) + i + 1]

\* seq[:k] for k >= 0.
Slice(seq, k) == SubSeq(seq, 1, IF k < Len(seq) THEN k ELSE Len(seq))

SearchKUnclamped(top_k, n) == top_k

\* min(top_k, len(self.documents))
SearchK(top_k, n) == IF top_k < n THEN top_k ELSE n

\* result = documents[idx].copy(); result['score'] = ...; result['rank'] = i + 1
Scored(doc, score, rank) ==
    [content |-> doc.content, type |-> doc.type, category |-> doc.category,
     score |-> score, rank |-> rank]

\* The loop over zip(scores[0], indices[0]).
Results(docs, hits) ==
    LET places == [i \in 1..Len(hits) |-> [hit |-> hits[i], rank |-> i]]
        kept == SelectSeq(places, LAMBDA p : p.hit.idx < Len(docs))
    IN  [i \in 1..Len(kept) |->
            Scored(PyIndex(docs, kept[i].hit.idx), kept[i].hit.score, kept[i].rank)]

\* RAGSystem.search: every sequence it can return.  fault is an exception
\* inside the try block.
SearchResults(rag, query, top_k, fault) ==
    IF ~rag.index.built \/ rag.documents = <<>> THEN {<<>>}
    ELSE IF fault # "none" THEN {Slice(rag.documents, top_k)}
    ELSE LET query_embedding == get_embeddings(<<query>>)
         IN  IF Sum(query_embedding[1]) = 0 THEN {Slice(rag.documents, top_k)}
             ELSE {Results(rag.documents, hits) :
                      hits \in FaissSearch(rag.index, query_embedding[1],
                                           SearchK(top_k, Len(rag.documents)))}

search(query, top_k, fault) ==
    /\ rag_system.constructed
    /\ \E ret \in SearchResults(rag_system, query, top_k, fault) :
          lastOp' = [op |-> "search", query |-> query, top_k |-> top_k,
                     fault |-> fault, ret |-> ret]
    /\ UNCHANGED <<now, env, app, calls, unswept, db, returned_ids>>

RECURSIVE AppendDocs(_, _, _)
\* The loop of get_context: append "- content\n" while it fits, stop at the
\* first document that does not.
AppendDocs(context, docs, max_context_length) ==
    IF docs = <<>> THEN context
    ELSE LET doc_text == StrDash \o Head(docs).content \o StrNewline
         IN  IF Len(context) + Len(doc_text) <= max_context_length
             THEN AppendDocs(context \o doc_text, Tail(docs), max_context_length)
             ELSE context

\* get_context searches with top_k = 5.
ContextTopK == 5

ContextTruncated(relevant_docs, max_context_length) ==
    LET all == AppendDocs(StrContextHeader, relevant_docs,
                          Len(StrContextHeader) + 100 * Len(relevant_docs))
    IN  IF Len(all) <= max_context_length \/ max_context_length < Len(StrContextHeader)
        THEN all ELSE SubSeq(all, 1, max_context_length)

Context(relevant_docs, max_context_length) ==
    AppendDocs(StrContextHeader, relevant_docs, max_context_length)

get_context(query, max_context_length, fault) ==
    /\ rag_system.constructed
    /\ \E relevant_docs \in SearchResults(rag_system, query, ContextTopK, fault) :
          lastOp' = [op |-> "context", query |-> query,
                     max_context_length |-> max_context_length, fault |-> fault,
                     docs |-> relevant_docs,
                     ret |-> Context(relevant_docs, max_context_length)]
    /\ UNCHANGED <<now, env, app, calls, unswept, db, returned_ids>>

\* ---------------------------------------------------------------- load and build, step by step
\* load_agricultural_data and build_vector_store work on the attributes of
\* the object itself; what follows is their statements one at a time, on a
\* constructed system, with rebuild.pc the statement the call has reached,
\* rebuild.files the files of the last load and rebuild.todo the entries its
\* loops have not read.

LoadFailedKeep(docs) == docs

\* except Exception: self.documents = []
LoadFailed(docs) == <<>>

\* The three open / json.load statements and self.documents = [].  A file
\* that cannot be opened or parsed raises here (unparsable); a file that
\* parses and lacks what the loops read raises once its loop is reached.
load_agricultural_data_read(soil, crop, schemes, unparsable) ==
    /\ rag_system.constructed
    /\ rebuild.pc = "idle"
    /\ IF unparsable /\ Unreadable \in {soil, crop, schemes}
       THEN /\ rag_system' = [rag_system EXCEPT !.documents = LoadFailed(@)]
            /\ rebuild' = [pc |-> "loaded", todo |-> <<>>,
                           files |-> <<soil, crop, schemes>>]
       ELSE /\ rag_system' = [rag_system EXCEPT !.documents = <<>>]
            /\ rebuild' = [pc |-> "loading", todo |-> soil \o crop \o schemes,
                           files |-> <<soil, crop, schemes>>]
    /\ lastOp' = [op |-> "load_read", raised |-> FALSE]
    /\ UNCHANGED <<now, env, ai_enabled, writers, unswept, db, returned_ids>>

\* One turn of the three loops: self.documents.append({...}), or the
\* exception of an entry the loop cannot read; after the last entry the call
\* returns.
load_agricultural_data_append ==
    /\ rebuild.pc = "loading"
    /\ IF rebuild.todo = <<>>
       THEN /\ rebuild' = [rebuild EXCEPT !.pc = "loaded"]
            /\ UNCHANGED rag_system
       ELSE IF Head(rebuild.todo).type = "unreadable"
       THEN /\ rag_system' = [rag_system EXCEPT !.documents = LoadFailed(@)]
            /\ rebuild' = [rebuild EXCEPT !.pc = "loaded"]
       ELSE /\ rag_system' = [rag_system EXCEPT
                                 !.documents = Append(@, Head(rebuild.todo))]
            /\ rebuild' = [rebuild EXCEPT !.todo = Tail(@)]
    /\ lastOp' = [op |-> "load_append", raised |-> FALSE]
    /\ UNCHANGED <<now, env, ai_enabled, writers, unswept, db, returned_ids>>

\* build_vector_store up to self.index = faiss.IndexFlatIP(self.dimension):
\* without documents the call returns and leaves the index as it is; an
\* exception leaves None; otherwise the index is a new, empty one.
build_vector_store_create(fault) ==
    /\ rebuild.pc = "loaded"
    /\ IF rag_system.documents = <<>>
       THEN /\ rebuild' = [rebuild EXCEPT !.pc = "idle"]
            /\ UNCHANGED rag_system
       ELSE IF fault # "none"
       THEN /\ rebuild' = [rebuild EXCEPT !.pc = "idle"]
            /\ rag_system' = [rag_system EXCEPT !.index = NoIndex]
       ELSE /\ rebuild' = [rebuild EXCEPT !.pc = "indexing"]
            /\ rag_system' = [rag_system EXCEPT
                                 !.index = [built |-> TRUE, vectors |-> <<>>]]
    /\ lastOp' = [op |-> "build_create", fault |-> fault]
    /\ UNCHANGED <<now, env, ai_enabled, writers, unswept, db, returned_ids>>

\* self.index.add(embeddings_array)
build_vector_store_add ==
    /\ rebuild.pc = "indexing"
    /\ \E ix \in build_vector_store(rag_system.documents, "none") :
          rag_system' = [rag_system EXCEPT !.index = ix]
    /\ rebuild' = [rebuild EXCEPT !.pc = "idle"]
    /\ lastOp' = [op |-> "build_add"]
    /\ UNCHANGED <<now, env, ai_enabled, writers, unswept, db, returned_ids>>

\* ---------------------------------------------------------------- classification
\* "WATER"
StrWaterUpper == <<87, 65, 84, 69, 82>>
\* "Watering the crops in drought"
StrWateringDrought == <<87, 97, 116, 101, 114, 105, 110, 103, 32, 116, 104, 101,
                        32, 99, 114, 111, 112, 115, 32, 105, 110, 32, 100, 114,
                        111, 117, 103, 104, 116>>
\* "crop loan"
StrCropLoan == <<99, 114, 111, 112, 32, 108, 111, 97, 110>>
\* "soil health"
StrSoilHealth == <<115, 111, 105, 108, 32, 104, 101, 97, 108, 116, 104>>
\* "hello"
StrHello == <<104, 101, 108, 108, 111>>
\* "pani chahie" in Devanagari
StrPaniChahie == <<2346, 2366, 2344, 2368, 32, 2330, 2366, 2361, 2367, 2319>>

NlpTexts == {StrEmpty, StrWater, StrNeedWater, StrWaterUpper, StrWateringDrought,
             StrCropLoan, StrSoilHealth, StrHello, StrPaniChahie}

\* NLPProcessor.intent_patterns, in the order of the dict; every term is the
\* sequence of its code points (the Devanagari terms included).
intent_patterns == <<
    \* crop, seed, plant, grow, cultivation, farming, harvest, and 5 Devanagari terms
    [intent |-> "crop_recommendation", patterns |-> <<
       <<99, 114, 111, 112>>,
       <<115, 101, 101, 100>>,
       <<112, 108, 97, 110, 116>>,
       <<103, 114, 111, 119>>,
       <<99, 117, 108, 116, 105, 118, 97, 116, 105, 111, 110>>,
       <<102, 97, 114, 109, 105, 110, 103>>,
       <<104, 97, 114, 118, 101, 115, 116>>,
       <<2347, 2360, 2354>>,
       <<2348, 2368, 2332>>,
       <<2326, 2375, 2340, 2368>>,
       <<2313, 2327, 2366, 2344, 2366>>,
       <<2348, 2379, 2344, 2366>>>>],
    \* water, irrigation, watering, rain, drought, moisture, and 4 Devanagari terms
    [intent |-> "irrigation", patterns |-> <<
       <<119, 97, 116, 101, 114>>,
       <<105, 114, 114, 105, 103, 97, 116, 105, 111, 110>>,
       <<119, 97, 116, 101, 114, 105, 110, 103>>,
       <<114, 97, 105, 110>>,
       <<100, 114, 111, 117, 103, 104, 116>>,
       <<109, 111, 105, 115, 116, 117, 114, 101>>,
       <<2346, 2366, 2344, 2368>>,
       <<2360, 2367, 2306, 2330, 2366, 2312>>,
       <<2348, 2366, 2352, 2367, 2358>>,
       <<2360, 2370, 2326, 2366>>>>],
    \* scheme, subsidy, government, loan, insurance, support, and 6 Devanagari terms
    [intent |-> "government_schemes", patterns |-> <<
       <<115, 99, 104, 101, 109, 101>>,
       <<115, 117, 98, 115, 105, 100, 121>>,
       <<103, 111, 118, 101, 114, 110, 109, 101, 110, 116>>,
       <<108, 111, 97, 110>>,
       <<105, 110, 115, 117, 114, 97, 110, 99, 101>>,
       <<115, 117, 112, 112, 111, 114, 116>>,
       <<2351, 2379, 2332, 2344, 2366>>,
       <<2360, 2348, 2381, 2360, 2367, 2337, 2368>>,
       <<2360, 2352, 2325, 2366, 2352>>,
       <<2354, 2379, 2344>>,
       <<2348, 2368, 2350, 2366>>,
       <<2360, 2361, 2366, 2351, 2340, 2366>>>>],
    \* fertilizer, manure, nutrition, nutrient, soil health, and 3 Devanagari terms
    [intent |-> "fertilizer", patterns |-> <<
       <<102, 101, 114, 116, 105, 108, 105, 122, 101, 114>>,
       <<109, 97, 110, 117, 114, 101>>,
       <<110, 117, 116, 114, 105, 116, 105, 111, 110>>,
       <<110, 117, 116, 114, 105, 101, 110, 116>>,
       <<115, 111, 105, 108, 32, 104, 101, 97, 108, 116, 104>>,
       <<2326, 2366, 2342>>,
       <<2313, 2352, 2381, 2357, 2352, 2325>>,
       <<2346, 2379, 2359, 2339>>>>]>>

\* pattern in text_lower
IsSubstring(pattern, text) ==
    \E i \in 0..(Len(text) - Len(pattern)) :
       SubSeq(text, i + 1, i + Len(pattern)) = pattern

\* sum(1 for pattern in patterns if pattern in text_lower)
PatternScore(k, text_lower) ==
    Cardinality({j \in 1..Len(intent_patterns[k].patterns) :
                    IsSubstring(intent_patterns[k].patterns[j], text_lower)})

\* A Python number as the fraction n/d, d > 0.
Number(n, d) == [n |-> n, d |-> d]
NumGeq(a, b) == a.n * b.d >= b.n * a.d

\* intent_scores[intent] = score / len(patterns)
IntentScore(k, text_lower) ==
    Number(PatternScore(k, text_lower), Len(intent_patterns[k].patterns))

BestIntentFirstMatch(text_lower) ==
    CHOOSE k \in 1..Len(intent_patterns) :
       /\ PatternScore(k, text_lower) > 0
       /\ \A h \in 1..(k - 1) : PatternScore(h, text_lower) = 0

\* max(intent_scores, key=intent_scores.get): the first key, in insertion
\* order, whose value no other exceeds.
BestIntent(text_lower) ==
    CHOOSE k \in 1..Len(intent_patterns) :
       /\ PatternScore(k, text_lower) > 0
       /\ \A h \in 1..Len(intent_patterns) :
             NumGeq(IntentScore(k, text_lower), IntentScore(h, text_lower))
       /\ \A h \in 1..(k - 1) :
             PatternScore(h, text_lower) > 0 =>
                ~NumGeq(IntentScore(h, text_lower), IntentScore(k, text_lower))

\* A Python value a classifier can hand back: a dict with its keys, or a
\* JSON value of another type.
Dict(intent, confidence, entities) ==
    [type |-> "dict", keys |-> {"intent", "confidence", "entities"},
     intent |-> intent, confidence |-> confidence, entities |-> entities]
Other(type, keys) ==
    [type |-> type, keys |-> keys,
     intent |-> "", confidence |-> Number(0, 1), entities |-> <<>>]

_fallback_intent_classification(text) ==
    LET text_lower == StrLower(text)
    IN  IF \E k \in 1..Len(intent_patterns) : PatternScore(k, text_lower) > 0
        THEN Dict(intent_patterns[BestIntent(text_lower)].intent,
                  IntentScore(BestIntent(text_lower), text_lower), <<>>)
        ELSE Dict("general", Number(1, 2), <<>>)

\* The pattern matcher called on its own.
fallback_intent_classification(text) ==
    /\ ai_enabled
    /\ lastOp' = [op |-> "fallback", text |-> text, raised |-> FALSE,
                  ret |-> _fallback_intent_classification(text)]
    /\ UNCHANGED <<now, env, app, calls, unswept, db, returned_ids>>

\* What the chat completion can do: raise (no network, bad key, rate limit),
\* or answer with a text that is a JSON document or is not one.
\*   {"intent": "irrigation", "confidence": 0.95, "entities": ["water"]}
\*   {"intent": "weather", "confidence": 0.9, "entities": []}
\*   {"intent": "irrigation", "confidence": 95, "entities": []}
\*   {"label": "irrigation"}      ["irrigation"]      "irrigation"
\*   The intent is irrigation.    (no JSON)
JsonDocuments ==
    {Dict("irrigation", Number(19, 20), <<"water">>),
     Dict("weather", Number(9, 10), <<>>),
     Dict("irrigation", Number(95, 1), <<>>),
     Other("dict", {"label"}), Other("list", {}), Other("str", {})}
Completions ==
    {[kind |-> "raises", parses |-> FALSE, value |-> Other("none", {})],
     [kind |-> "content", parses |-> FALSE, value |-> Other("none", {})]}
    \cup {[kind |-> "content", parses |-> TRUE, value |-> v] : v \in JsonDocuments}

\* classify_intent: the completion's content parsed by json.loads is returned
\* as it is; the bare except around json.loads and the outer except both lead
\* to the pattern matcher.
ClassifyResult(text, completion) ==
    IF completion.kind = "raises" THEN _fallback_intent_classification(text)
    ELSE IF ~completion.parses THEN _fallback_intent_classification(text)
    ELSE completion.value

classify_intent(text, completion) ==
    /\ ai_enabled
    /\ lastOp' = [op |-> "classify", text |-> text, completion |-> completion,
                  raised |-> FALSE, ret |-> ClassifyResult(text, completion)]
    /\ UNCHANGED <<now, env, app, calls, unswept, db, returned_ids>>

\* intent_result['intent'] raises KeyError on a dict without the key and
\* TypeError on a list or a str.
Subscriptable(v, key) == v.type = "dict" /\ key \in v.keys

\* intent_result.get('confidence', 0.5)
GetConfidence(v) == IF "confidence" \in v.keys THEN v.confidence ELSE Number(1, 2)

ErrorReply == "I'm sorry, I encountered an error processing your query."
GeneratedReplies == {"answer"}

\* process_query: classify, generate; any exception gives the error result.
ProcessResult(query, completion, response) ==
    LET intent_result == ClassifyResult(query, completion)
    IN  IF Subscriptable(intent_result, "intent")
        THEN [intent |-> intent_result, response |-> response,
              confidence |-> GetConfidence(intent_result)]
        ELSE [intent |-> Dict("general", Number(1, 2), <<>>),
              response |-> ErrorReply, confidence |-> Number(0, 1)]

process_query(query, completion, response) ==
    /\ ai_enabled
    /\ lastOp' = [op |-> "process", text |-> query, completion |-> completion,
                  raised |-> FALSE,
                  ret |-> ProcessResult(query, completion, response)]
    /\ UNCHANGED <<now, env, app, calls, unswept, db, returned_ids>>

\* ---------------------------------------------------------------- answer
AppQueries == {StrNeedWater, StrHello}
\* st.session_state.current_language
SessionLanguages == {"en", "hi"}

OfflineText == "AI services are currently offline. Please check your internet connection and API keys."
ApologyText == "I apologize, but I encountered an error while processing your request."

\* The dicts generate_response returns, by their keys.
OfflineResult == [keys |-> {"text", "sources", "confidence"}, text |-> OfflineText,
                  sources |-> <<>>, confidence |-> Number(0, 1), intent |-> ""]
ApologyResult == [keys |-> {"text", "sources", "confidence"}, text |-> ApologyText,
                  sources |-> <<>>, confidence |-> Number(0, 1), intent |-> ""]

\* f"{doc['type'].title()}: {doc['category']}"
Source(doc) == [title |-> doc.type, category |-> doc.category]

\* generate_response asks search for three documents.
SourcesTopK == 3

\* translate_from_english: TranslatorService has no translation backend and
\* returns the text it was given.
translate_from_english(text, target_language) == text

\* An exception raised by a collaborator inside generate_response: during
\* retrieval, or while the irrigation branch reads the weather data (a backup
\* entry without 'weather_description' raises KeyError).
Booms == {"none", "retrieval", "weather"}

HandleExceptionReraise(failed, value) ==
    [raised |-> failed, ret |-> IF failed THEN ApologyResult ELSE value]

\* try: ... except Exception: return the apology result.
HandleException(failed, value) ==
    [raised |-> FALSE, ret |-> IF failed THEN ApologyResult ELSE value]

\* The statements of generate_response behind store_query.
AnswerResult(query, language, completion, response, relevant_docs, boom) ==
    IF ~ai_enabled THEN HandleException(FALSE, OfflineResult)
    ELSE LET nlp_result == ProcessResult(query, completion, response)
             intent == nlp_result.intent.intent
             failed == \/ boom = "retrieval" /\ rag_system.constructed
                       \/ boom = "weather" /\ intent = "irrigation"
         IN  HandleException(failed,
                [keys |-> {"text", "sources", "confidence", "intent"},
                 text |-> translate_from_english(nlp_result.response, language),
                 sources |-> [i \in 1..Len(relevant_docs) |-> Source(relevant_docs[i])],
                 confidence |-> nlp_result.confidence,
                 intent |-> intent])

\* "\n\nCurrent weather: data unavailable, Temperature: 25°C, Humidity: 60%.
\* Irrigation recommendation: Monitor soil condition. Light irrigation may be
\* needed.": what generate_response appends for the built-in default weather
\* (25 degrees, 60 % humidity, no rain), the weather of an installation
\* without WEATHER_API_KEY and backup file.
StrWeatherSummary == <<10, 10, 67, 117, 114, 114, 101, 110, 116, 32, 119,
                       101, 97, 116, 104, 101, 114, 58, 32, 100, 97, 116, 97,
                       32, 117, 110, 97, 118, 97, 105, 108, 97, 98, 108, 101,
                       44, 32, 84, 101, 109, 112, 101, 114, 97, 116, 117,
                       114, 101, 58, 32, 50, 53, 176, 67, 44, 32, 72, 117,
                       109, 105, 100, 105, 116, 121, 58, 32, 54, 48, 37, 46,
                       32, 73, 114, 114, 105, 103, 97, 116, 105, 111, 110,
                       32, 114, 101, 99, 111, 109, 109, 101, 110, 100, 97,
                       116, 105, 111, 110, 58, 32, 77, 111, 110, 105, 116,
                       111, 114, 32, 115, 111, 105, 108, 32, 99, 111, 110,
                       100, 105, 116, 105, 111, 110, 46, 32, 76, 105, 103,
                       104, 116, 32, 105, 114, 114, 105, 103, 97, 116, 105,
                       111, 110, 32, 109, 97, 121, 32, 98, 101, 32, 110, 101,
                       101, 100, 101, 100, 46>>

\* get_context's default max_context_length: 2000 in the source, scaled down
\* with the documents (the loader's texts run to several hundred characters,
\* the ones here to thirty).
DefaultMaxContextLength == 200

\* The local variable context of generate_response: get_context(query), and
\* for an irrigation query the weather summary appended to it.
AnswerContext(query, completion, response, context_docs) ==
    IF ~ai_enabled THEN <<>>
    ELSE LET intent == ProcessResult(query, completion, response).intent.intent
             context == IF rag_system.constructed
                        THEN Context(context_docs, DefaultMaxContextLength)
                        ELSE <<>>
         IN  IF intent = "irrigation" THEN context \o StrWeatherSummary
             ELSE context

\* generate_response, first statement: store_query(query, language=...).
generate_response_store(query, language, fault) ==
    /\ lastOp.op # "answering"
    /\ sqlite_sequence.queries < MaxQueries
    /\ LET new == QueryRow(query, Null, language, Null)
           r == TryExcept(fault, new.id, -1)
       IN  /\ queries' = Commit(fault, queries, Append(queries, new))
           /\ sqlite_sequence' = Commit(fault, sqlite_sequence, Bump("queries"))
           /\ returned_ids' = returned_ids \cup {r.ret}
           /\ lastOp' = [op |-> "answering", query |-> query, language |-> language,
                         fault |-> fault, logged |-> r.ret, entries |-> Len(queries)]
    /\ UNCHANGED <<now, env, app, calls, unswept, weather_cache, recommendations_cache>>

\* generate_response, the rest of the call.
generate_response(completion, response, boom) ==
    /\ lastOp.op = "answering"
    /\ \E context_docs \in (IF rag_system.constructed
                            THEN SearchResults(rag_system, lastOp.query, ContextTopK, "none")
                            ELSE {<<>>}),
          relevant_docs \in (IF rag_system.constructed
                             THEN SearchResults(rag_system, lastOp.query, SourcesTopK, "none")
                             ELSE {<<>>}) :
          LET r == AnswerResult(lastOp.query, lastOp.language, completion,
                                response, relevant_docs, boom)
          IN  lastOp' = [op |-> "answer", query |-> lastOp.query,
                         language |-> lastOp.language, fault |-> lastOp.fault,
                         logged |-> lastOp.logged, entries |-> lastOp.entries,
                         boom |-> boom, raised |-> r.raised, ret |-> r.ret,
                         context |-> IF r.ret = ApologyResult THEN <<>>
                                     ELSE AnswerContext(lastOp.query, completion,
                                                        response, context_docs)]
    /\ UNCHANGED <<now, env, app, calls, unswept, db, returned_ids>>

\* ---------------------------------------------------------------- specifications
InitDb ==
    /\ now = 0
    /\ weather_cache = <<>>
    /\ recommendations_cache = <<>>
    /\ queries = <<>>
    /\ sqlite_sequence = [weather_cache |-> 0, recommendations_cache |-> 0, queries |-> 0]
    /\ returned_ids = {}
    /\ lastOp = NoOp
    /\ unswept = [weather |-> <<>>, recommendation |-> <<>>]
    /\ writers = [w \in Sessions |-> NotCalled]
    /\ rebuild = NoRebuild

\* config.py leaves WEATHER_API_KEY empty; without data/weather_backup.json
\* the fetcher starts from {"cities": {}}.
NoFetcher == weather_api_key = FALSE /\ backup_weather = {}

\* The offline component on its own: no assistant has been set up.
NoAssistant == rag_system = NoRag /\ ai_enabled = FALSE

\* Every specification explores up to MaxRows rows inserted over the tables.
RowsInserted == sqlite_sequence.weather_cache + sqlite_sequence.recommendations_cache
                + sqlite_sequence.queries

\* ---------------------------------------------------------------- sessions
\* Every Streamlit session builds its own OfflineHandler on the one database
\* file, and every writing handler is: connect, one statement, commit.

\* The writing calls: the two cache writers, store_query as generate_response
\* calls it, and update_query_response.
PutCall(c, k, v, cache_hours) ==
    [op |-> c, key |-> k, value |-> v, ttl |-> cache_hours, id |-> 0,
     response |-> Null]
AppendCall(q) ==
    [op |-> "append", key |-> q, value |-> None, ttl |-> 0, id |-> 0,
     response |-> Null]
AttachCall(query_id, response) ==
    [op |-> "attach", key |-> "", value |-> None, ttl |-> 0, id |-> query_id,
     response |-> response]

WriteCalls ==
    {PutCall("weather", "Delhi", v, MaxTtl) : v \in Payloads}
    \cup {PutCall("recommendation", k, v, MaxTtl) : k \in CacheKeys, v \in Payloads}
    \cup {AppendCall(q) : q \in QueryTexts}
    \cup {AttachCall(1, r) : r \in Responses}

Inserts(call) == call.op \in {"weather", "recommendation", "append"}

CallTable(call) == IF call.op = "weather" THEN "weather_cache"
                   ELSE IF call.op = "recommendation" THEN "recommendations_cache"
                   ELSE "queries"

\* The rows a session has asked for and not yet been refused.
InFlight == Cardinality({w \in Sessions : writers[w].pc \in {"connected", "executed"}
                                           /\ Inserts(writers[w].call)})

\* conn = sqlite3.connect(db_path), and for the cache writers
\* expires_at = datetime.now() + timedelta(hours=cache_hours).
connect(w, call) ==
    /\ writers[w].pc = "idle"
    /\ Inserts(call) => RowsInserted + InFlight < MaxRows
    /\ writers' = [writers EXCEPT ![w] =
                      [NotCalled EXCEPT !.pc = "connected", !.call = call,
                                        !.expires_at = IsoText(DatetimeNow(now, tz)
                                                               + Timedelta(call.ttl))]]
    /\ lastOp' = [op |-> "connect", session |-> w]
    /\ UNCHANGED <<now, env, app, rebuild, unswept, db, returned_ids>>

\* A connection that has executed its statement holds the write lock of the
\* file until it commits.
WriteLocked == \E w \in Sessions : writers[w].pc = "executed"

\* cursor.execute(...): the implicit BEGIN and the statement, inside the
\* connection's transaction; an INSERT draws its rowid and its timestamp.
execute(w) ==
    /\ writers[w].pc = "connected"
    /\ ~WriteLocked
    /\ writers' = [writers EXCEPT ![w].pc = "executed",
                                  ![w].rowid = IF Inserts(writers[w].call)
                                               THEN NextId(CallTable(writers[w].call))
                                               ELSE 0,
                                  ![w].timestamp = CurrentTimestamp(now)]
    /\ lastOp' = [op |-> "execute", session |-> w]
    /\ UNCHANGED <<now, env, app, rebuild, unswept, db, returned_ids>>

\* The statement finds the file locked for longer than the connection's
\* timeout: sqlite3.OperationalError, caught by the handler.
database_is_locked(w) ==
    /\ writers[w].pc = "connected"
    /\ WriteLocked
    /\ writers' = [writers EXCEPT ![w].pc = "returned", ![w].outcome = "failed",
                                  ![w].ret = IF writers[w].call.op = "append"
                                             THEN -1 ELSE 0]
    /\ lastOp' = [op |-> "locked", session |-> w]
    /\ UNCHANGED <<now, env, app, rebuild, unswept, db, returned_ids>>

\* The row the session's INSERT adds.
WrittenRow(s) ==
    IF s.call.op = "append"
    THEN [id |-> s.rowid, query_text |-> s.call.key, response_text |-> Null,
          language |-> "en", intent |-> Null, timestamp |-> s.timestamp,
          processed |-> FALSE]
    ELSE [id |-> s.rowid, key |-> s.call.key, data |-> JsonDumps(s.call.value),
          timestamp |-> s.timestamp, expires_at |-> s.expires_at]

\* conn.commit(); conn.close(); return.
commit(w) ==
    LET s == writers[w]
        op == s.call.op
    IN  /\ s.pc = "executed"
        /\ weather_cache' = IF op = "weather" THEN WeatherInsertOrReplace(WrittenRow(s))
                            ELSE weather_cache
        /\ recommendations_cache' =
               IF op = "recommendation" THEN RecInsertOrReplace(WrittenRow(s))
               ELSE recommendations_cache
        /\ queries' = IF op = "append" THEN Append(queries, WrittenRow(s))
                      ELSE IF op = "attach" THEN UpdateWhereId(s.call.id, s.call.response)
                      ELSE queries
        /\ sqlite_sequence' = IF Inserts(s.call) THEN Bump(CallTable(s.call))
                              ELSE sqlite_sequence
        /\ returned_ids' = IF op = "append" THEN returned_ids \cup {s.rowid}
                           ELSE returned_ids
        /\ writers' = [writers EXCEPT ![w].pc = "returned", ![w].outcome = "committed",
                                      ![w].ret = IF op = "append" THEN s.rowid ELSE 0]
        /\ lastOp' = [op |-> "commit", session |-> w]
        /\ UNCHANGED <<now, env, app, rebuild, unswept>>

CachePuts(faults, locs, vals) ==
    /\ RowsInserted < MaxRows
    /\ \/ \E l \in locs, v \in vals, h \in TtlHours, f \in faults :
             cache_weather_data(l, v, h, f) /\ UNCHANGED unswept
       \/ \E k \in CacheKeys, v \in vals, h \in TtlHours, f \in faults :
             cache_recommendation(k, v, h, f) /\ UNCHANGED unswept

CacheGets(faults, locs) ==
    \/ \E l \in locs, f \in faults : get_cached_weather(l, f)
    \/ \E k \in CacheKeys, f \in faults : get_cached_recommendation(k, f)

Sweep(faults) == \E f \in faults : cleanup_expired_cache(f)

Append_ == \E q \in QueryTexts, r \in Responses \cup {Null}, l \in Languages,
              f \in FaultPoints : store_query(q, r, l, Null, f)

Attach == \E id \in 1..MaxQueries, r \in Responses, f \in FaultPoints :
             update_query_response(id, r, f)

ListUnprocessed == \E f \in FaultPoints : get_unprocessed_queries(f)

Fetch == \E c \in Locations, o \in ProviderOutcomes, b \in ProviderBodies :
            get_weather_data(c, o, b)

\* The two caches under every time zone.
InitCache == InitDb /\ NoFetcher /\ NoAssistant /\ tz \in TzOffsets
NextCache == CachePuts({"none"}, Locations, Payloads) \/ CacheGets({"none"}, Locations) \/ Sweep({"none"}) \/ Tick
SpecCache == InitCache /\ [][NextCache]_vars

\* INSERT OR REPLACE as it acts on the cache c of unswept: the two tables as
\* they would be had cleanup_expired_cache never been called.
UnsweptPut(c, new) ==
    [unswept EXCEPT ![c] =
        Append(SelectSeq(@, LAMBDA r : ~(IF c = "weather" THEN WeatherConflict(r, new)
                                         ELSE RecConflict(r, new))),
               new)]

ShadowedPuts ==
    /\ RowsInserted < MaxRows
    /\ \/ \E l \in {"Delhi"}, v \in Payloads, h \in TtlHours :
             /\ cache_weather_data(l, v, h, "none")
             /\ unswept' = UnsweptPut("weather", CacheRow("weather_cache", l, v, h))
       \/ \E k \in CacheKeys, v \in Payloads, h \in TtlHours :
             /\ cache_recommendation(k, v, h, "none")
             /\ unswept' = UnsweptPut("recommendation",
                                      CacheRow("recommendations_cache", k, v, h))

\* The two caches next to their unswept copies, under every time zone, on
\* one location.
NextSweep == ShadowedPuts \/ CacheGets({"none"}, {"Delhi"}) \/ Sweep({"none"}) \/ Tick
SpecSweep == InitCache /\ [][NextSweep]_vars

\* The query log.
InitLog == InitDb /\ NoFetcher /\ NoAssistant /\ tz = 0
NextLog == Append_ \/ Attach \/ ListUnprocessed \/ Tick
SpecLog == InitLog /\ [][NextLog]_vars

\* The weather fetch next to the weather cache.
InitFetch == /\ InitDb
             /\ NoAssistant
             /\ tz \in TzOffsets
             /\ weather_api_key \in BOOLEAN
             /\ backup_weather \in {{}, {"delhi"}}
NextFetch ==
    \/ (RowsInserted < MaxRows /\
          \E l \in Locations, v \in Payloads, h \in TtlHours :
             cache_weather_data(l, v, h, "none") /\ UNCHANGED unswept)
    \/ Fetch
    \/ Tick
SpecFetch == InitFetch /\ [][NextFetch]_vars

\* The whole offline component, storage faults included, on one location and
\* one payload.
Init == InitDb /\ NoFetcher /\ NoAssistant /\ tz = 0
Next ==
    \/ CachePuts(FaultPoints, {"Delhi"}, {Snapshot("api", 1, "none")})
    \/ CacheGets(FaultPoints, {"Delhi"})
    \/ Sweep(FaultPoints)
    \/ (RowsInserted < MaxRows /\ Append_)
    \/ Attach
    \/ ListUnprocessed
    \/ Tick
Spec == Init /\ [][Next]_vars

\* The retrieval system after construction, over every state of the data
\* files.
MaxContextLengths == {0, 36, 57, 60, 2000}
RagStores == UNION {RAGSystem(s, c, g, f) :
                       s \in SoilFiles, c \in CropFiles, g \in SchemeFiles,
                       f \in FaultPoints}
InitRag == /\ InitDb /\ NoFetcher /\ tz = 0
           /\ ai_enabled = TRUE
           /\ rag_system \in RagStores
NextRag ==
    \/ \E q \in RagQueries, k \in TopKs, f \in FaultPoints : search(q, k, f)
    \/ \E q \in RagQueries, m \in MaxContextLengths, f \in FaultPoints :
          get_context(q, m, f)
SpecRag == InitRag /\ [][NextRag]_vars

\* The classifier of a configured assistant, over every completion.
InitNlp == /\ InitDb /\ NoFetcher /\ tz = 0
           /\ ai_enabled = TRUE
           /\ rag_system \in RAGSystem(Unreadable, Unreadable, Unreadable, "none")
NextNlp ==
    \/ \E t \in NlpTexts : fallback_intent_classification(t)
    \/ \E t \in NlpTexts, c \in Completions : classify_intent(t, c)
    \/ \E t \in NlpTexts, c \in Completions, r \in GeneratedReplies :
          process_query(t, c, r)
SpecNlp == InitNlp /\ [][NextNlp]_vars

\* The assistant after setup_components, with and without a GROQ_API_KEY.
AppStores == RAGSystem(Unreadable, Unreadable, Unreadable, "none")
             \cup RAGSystem(<<DocSoilAlluvial, DocSoilBlack>>, <<DocCropRice>>,
                            <<DocSchemeKisan>>, "none")
InitAnswer == /\ InitDb /\ NoFetcher /\ tz = 0
              /\ ai_enabled \in BOOLEAN
              /\ rag_system \in (IF ai_enabled THEN AppStores ELSE {NoRag})
\* Between two calls of generate_response the log can be listed.
ListWhenIdle == lastOp.op # "answering" /\ get_unprocessed_queries("none")
NextAnswer ==
    \/ \E q \in AppQueries, l \in SessionLanguages, f \in FaultPoints :
          generate_response_store(q, l, f)
    \/ \E c \in Completions, r \in GeneratedReplies, b \in Booms :
          generate_response(c, r, b)
    \/ ListWhenIdle
SpecAnswer == InitAnswer /\ [][NextAnswer]_vars

\* The same with the log listed again and again whenever the assistant is
\* between two calls.
FairSpecAnswer == SpecAnswer /\ WF_vars(ListWhenIdle)

\* The sessions writing side by side, one call each.
InitWriters == InitDb /\ NoFetcher /\ NoAssistant /\ tz = 0
NextWriters ==
    \/ \E w \in Sessions, call \in WriteCalls : connect(w, call)
    \/ \E w \in Sessions : execute(w)
    \/ \E w \in Sessions : database_is_locked(w)
    \/ \E w \in Sessions : commit(w)
    \/ Tick
SpecWriters == InitWriters /\ [][NextWriters]_vars

\* A constructed retrieval system whose data is loaded and indexed again
\* while it is searched.
ReloadQueries == {StrWater, StrNeedWater}
InitRebuild == /\ InitDb /\ NoFetcher /\ tz = 0
               /\ ai_enabled = TRUE
               /\ rag_system \in RAGSystem(<<DocSoilAlluvial, DocSoilBlack>>,
                                           <<DocCropRice>>, <<DocSchemeKisan>>, "none")
NextRebuild ==
    \/ \E s \in SoilFiles, c \in CropFiles, g \in SchemeFiles, u \in BOOLEAN :
          load_agricultural_data_read(s, c, g, u)
    \/ load_agricultural_data_append
    \/ \E f \in FaultPoints : build_vector_store_create(f)
    \/ build_vector_store_add
    \/ \E q \in ReloadQueries, k \in TopKs : search(q, k, "none")
SpecRebuild == InitRebuild /\ [][NextRebuild]_vars

\* ---------------------------------------------------------------- claims
CacheTable(c) == IF c = "weather" THEN weather_cache ELSE recommendations_cache
CacheNames == {"weather", "recommendation"}

\* An entry is expired once the clock that stamped expires_at (datetime.now())
\* has reached it.
Expired(r) == Instant(r.expires_at) <= DatetimeNow(now, tz)

IsStep(name) == lastOp'.op = name /\ lastOp'.fault = "none"

\* C1: in both caches, put(key, value, ttl) with ttl > 0 followed immediately
\* by get(key) returns exactly value.
C1_PutThenGetReturnsValue ==
    [][(/\ lastOp.op = "put" /\ lastOp.fault = "none" /\ lastOp.ttl > 0
        /\ IsStep("get")
        /\ lastOp'.cache = lastOp.cache /\ lastOp'.key = lastOp.key)
       => lastOp'.ret = lastOp.value]_vars

\* C2: each cache holds at most one entry per key after any sequence of puts,
\* and a get that follows a put on the same key returns that put's payload.
C2_OneEntryPerKey ==
    /\ \A c \in CacheNames : \A i, j \in 1..Len(CacheTable(c)) :
          CacheTable(c)[i].key = CacheTable(c)[j].key => i = j
    /\ (lastOp.op = "get" /\ lastOp.fault = "none" /\ lastOp.ret # None) =>
          (\A i \in 1..Len(CacheTable(lastOp.cache)) :
                CacheTable(lastOp.cache)[i].key = lastOp.key
                   => JsonLoads(CacheTable(lastOp.cache)[i].data) = lastOp.ret)

\* C3: get(key) treats every entry with expires_at <= now as absent, an entry
\* written with ttl = 0 and read at once included.
C3_ExpiredIsAbsent ==
    (lastOp.op = "get" /\ lastOp.fault = "none"
       /\ \A i \in 1..Len(CacheTable(lastOp.cache)) :
             CacheTable(lastOp.cache)[i].key = lastOp.key
                => Expired(CacheTable(lastOp.cache)[i]))
    => lastOp.ret = None

\* C4: after sweep neither cache holds an expired entry, and every entry that
\* is not expired is still there, unchanged.
C4_SweepRemovesExactlyExpired ==
    [][IsStep("sweep") =>
         /\ \A i \in 1..Len(weather_cache') : ~Expired(weather_cache'[i])
         /\ \A i \in 1..Len(recommendations_cache') : ~Expired(recommendations_cache'[i])
         /\ \A i \in 1..Len(weather_cache) : ~Expired(weather_cache[i]) =>
               \E j \in 1..Len(weather_cache') : weather_cache'[j] = weather_cache[i]
         /\ \A i \in 1..Len(recommendations_cache) : ~Expired(recommendations_cache[i]) =>
               \E j \in 1..Len(recommendations_cache') :
                  recommendations_cache'[j] = recommendations_cache[i]]_vars

Ids(rows) == {rows[i].id : i \in 1..Len(rows)}

\* C5 as stated: every call of append creates a new entry and returns an id
\* greater than every id returned before.
C5_AppendAlwaysSucceeds ==
    [][lastOp'.op = "append" =>
         /\ Len(queries') = Len(queries) + 1
         /\ queries'[Len(queries')].id = lastOp'.ret
         /\ \A r \in returned_ids : lastOp'.ret > r]_vars

\* C5 (amended): an append whose storage access succeeds creates one new
\* entry and returns its id, greater than every id returned before; an append
\* whose storage access fails creates nothing and returns -1.
C5_AppendSucceedsUnlessStorageFails ==
    [][lastOp'.op = "append" =>
         IF lastOp'.fault = "none"
         THEN /\ Len(queries') = Len(queries) + 1
              /\ SubSeq(queries', 1, Len(queries)) = queries
              /\ queries'[Len(queries')].id = lastOp'.ret
              /\ queries'[Len(queries')].processed = (lastOp'.response # Null)
              /\ \A r \in returned_ids : lastOp'.ret > r
         ELSE lastOp'.ret = -1 /\ queries' = queries /\ ~lastOp'.raised]_vars

C5_Witness ==
    /\ lastOp.op = "append" /\ lastOp.fault = "none" /\ lastOp.response = Null
    /\ lastOp.ret = 3
    /\ returned_ids = {-1, 1, 2, 3}

\* C6: attach_response(id, r) on an existing entry sets its response_text to
\* r and processed to true and changes no other entry, whatever the entry
\* held before: a repeated call leaves the last response.
C6_AttachSetsResponse ==
    [][IsStep("attach") =>
         /\ Len(queries') = Len(queries)
         /\ \A i \in 1..Len(queries) :
               IF queries[i].id = lastOp'.id
               THEN queries'[i] = [queries[i] EXCEPT !.response_text = lastOp'.response,
                                                     !.processed = TRUE]
               ELSE queries'[i] = queries[i]]_vars

C6_Witness ==
    /\ lastOp.op = "attach" /\ lastOp.fault = "none" /\ lastOp.again
    /\ lastOp.response = "r2"
    /\ Len(queries) >= 2
    /\ \E i \in 1..Len(queries) :
          queries[i].id = lastOp.id /\ queries[i].response_text = "r2"
    /\ \E i \in 1..Len(queries) : queries[i].id # lastOp.id /\ ~queries[i].processed

Unprocessed == SelectSeq(queries, LAMBDA q : ~q.processed)

C8_LogNeverShrinks ==
    [][Ids(queries) \subseteq Ids(queries') /\ Len(queries') >= Len(queries)]_vars

C8_Witness ==
    /\ lastOp.op = "sweep" /\ lastOp.fault = "none"
    /\ sqlite_sequence.weather_cache = 1 /\ weather_cache = <<>>
    /\ Len(queries) = 1

\* C9: when the storage layer fails during a cache get, list_unprocessed, a
\* cache put, attach_response or sweep, the call does not raise, get returns
\* absent, list_unprocessed returns the empty sequence, and the stored state
\* is unchanged.
C9_StorageFaultDegrades ==
    [][(lastOp'.op \in {"get", "list", "put", "attach", "sweep"}
          /\ lastOp'.fault # "none") =>
         /\ ~lastOp'.raised
         /\ db' = db
         /\ (lastOp'.op = "get" => lastOp'.ret = None)
         /\ (lastOp'.op = "list" => lastOp'.ret = <<>>)]_vars

C9_Witness ==
    /\ lastOp.op = "list" /\ lastOp.fault # "none" /\ lastOp.ret = <<>>
    /\ Unprocessed # <<>>
    /\ weather_cache # <<>>

\* C10: when the provider call is unusable, fetch(location) returns the
\* weather cache's value for the location if the cache holds one, and a
\* static snapshot only when it holds none.
C10_FetchFallsBackToCache ==
    (lastOp.op = "fetch" /\ weather_api_key /\ lastOp.outcome # "ok") =>
        IF SelectCached(weather_cache, lastOp.key) # None
        THEN lastOp.ret = SelectCached(weather_cache, lastOp.key)
        ELSE lastOp.ret \in {BackupSnapshot, DefaultSnapshot}

\* The documents the index holds: none while it is unbuilt.
IndexSize(rag) == IF rag.index.built THEN Len(rag.index.vectors) ELSE 0

IsScored(r) == "score" \in DOMAIN r

\* C11: over an index of N documents (an empty store and an unbuilt index
\* hold none), search(q, k) returns exactly min(k, N) results, and the scores
\* the results carry never increase along the sequence.
C11_SearchReturnsTopK ==
    lastOp.op = "search" =>
        /\ Len(lastOp.ret) = (IF lastOp.top_k < IndexSize(rag_system)
                              THEN lastOp.top_k ELSE IndexSize(rag_system))
        /\ \A i, j \in 1..Len(lastOp.ret) :
              (i < j /\ IsScored(lastOp.ret[i]) /\ IsScored(lastOp.ret[j]))
                 => ScoreGeq(lastOp.ret[i].score, lastOp.ret[j].score)

C11_Witness ==
    /\ lastOp.op = "search" /\ lastOp.fault = "none"
    /\ lastOp.top_k = 2 /\ Len(rag_system.documents) = 4
    /\ Len(lastOp.ret) = 2
    /\ IsScored(lastOp.ret[1]) /\ IsScored(lastOp.ret[2])
    /\ ~ScoreGeq(lastOp.ret[2].score, lastOp.ret[1].score)

Intents == {"crop_recommendation", "irrigation", "government_schemes",
            "fertilizer", "general"}

\* C12: classify(text) returns an intent of the closed set and a confidence in
\* [0, 1], for every text and every payload of the external model.
C12_ClassifyInClosedSet ==
    lastOp.op = "classify" =>
        /\ lastOp.ret.type = "dict"
        /\ lastOp.ret.intent \in Intents
        /\ NumGeq(lastOp.ret.confidence, Number(0, 1))
        /\ NumGeq(Number(1, 1), lastOp.ret.confidence)

\* The expected shape {intent, confidence, entities}.
MatchesShape(v) == v.type = "dict" /\ {"intent", "confidence", "entities"} \subseteq v.keys

\* C13: when the external model call fails, or its payload is no valid JSON
\* of the shape {intent, confidence, entities}, classify returns what the
\* fallback classifier returns for the same text, and raises nothing.
C13_MalformedFallsBack ==
    (lastOp.op = "classify"
       /\ (\/ lastOp.completion.kind = "raises"
           \/ ~lastOp.completion.parses
           \/ ~MatchesShape(lastOp.completion.value)))
    => /\ lastOp.ret = _fallback_intent_classification(lastOp.text)
       /\ ~lastOp.raised

\* A trigger term occurs in the text, letter case aside.
TermFound(term, text) == IsSubstring(StrLower(term), StrLower(text))

TriggerCount(k, text) ==
    Cardinality({j \in 1..Len(intent_patterns[k].patterns) :
                    TermFound(intent_patterns[k].patterns[j], text)})

TriggerSize(k) == Len(intent_patterns[k].patterns)

\* C14: the fallback classifier scores each intent as the number of its
\* trigger terms found in the text as case-insensitive substrings over the
\* size of its trigger set, and returns an intent of the highest score with
\* that score as confidence, or general with 0.5 when every score is zero;
\* "I need water for my crop" gives irrigation with a confidence above 0.
C14_FallbackScoresByTriggerShare ==
    lastOp.op = "fallback" =>
        /\ IF \A k \in 1..Len(intent_patterns) : TriggerCount(k, lastOp.text) = 0
           THEN lastOp.ret.intent = "general" /\ lastOp.ret.confidence = Number(1, 2)
           ELSE \E k \in 1..Len(intent_patterns) :
                   /\ lastOp.ret.intent = intent_patterns[k].intent
                   /\ lastOp.ret.confidence.n * TriggerSize(k)
                         = TriggerCount(k, lastOp.text) * lastOp.ret.confidence.d
                   /\ \A h \in 1..Len(intent_patterns) :
                         TriggerCount(k, lastOp.text) * TriggerSize(h)
                            >= TriggerCount(h, lastOp.text) * TriggerSize(k)
        /\ (lastOp.text = StrNeedWater =>
               lastOp.ret.intent = "irrigation" /\ lastOp.ret.confidence.n > 0)

C14_Witness ==
    /\ lastOp.op = "fallback" /\ lastOp.text = StrNeedWater
    /\ TriggerCount(1, lastOp.text) = 1 /\ TriggerCount(2, lastOp.text) = 1
    /\ lastOp.ret.intent = "irrigation"
    /\ lastOp.ret.confidence = Number(1, 10)

\* C15: for every query, document store and maximum length, get_context
\* returns a string no longer than the maximum.
C15_ContextWithinBudget ==
    lastOp.op = "context" => Len(lastOp.ret) <= lastOp.max_context_length

\* C16: answer never raises: whatever fails, it returns a result with text,
\* sources and confidence, and without a configured AI service the confidence
\* is 0.0 and the text is the explanatory message.
C16_AnswerNeverRaises ==
    lastOp.op = "answer" =>
        /\ ~lastOp.raised
        /\ {"text", "sources", "confidence"} \subseteq lastOp.ret.keys
        /\ (~ai_enabled =>
               lastOp.ret.confidence = Number(0, 1) /\ lastOp.ret.text = OfflineText)

C16_Witness ==
    /\ lastOp.op = "answer" /\ lastOp.boom = "weather" /\ lastOp.fault # "none"
    /\ ai_enabled
    /\ lastOp.ret = ApologyResult

\* answer has returned a generated response for the query it logged as id.
Answered(id) ==
    lastOp.op = "answer" /\ lastOp.logged = id /\ "intent" \in lastOp.ret.keys

\* list_unprocessed still shows the entry.
StillListed(id) ==
    \E i \in 1..Len(queries) : queries[i].id = id /\ ~queries[i].processed

\* C17: once answer has a response for a query it logged, the entry is
\* updated with it and marked processed: an answered query eventually stops
\* appearing in list_unprocessed.
C17_AnsweredGetsProcessed == Answered(1) ~> ~StillListed(1)

\* C18: the weather cache is keyed by the case-normalised location: a get
\* returns the same whatever the letter case of the location, so a value put
\* under "Delhi" is returned by get("delhi").
C18_WeatherKeyIgnoresCase ==
    (lastOp.op = "get" /\ lastOp.cache = "weather" /\ lastOp.fault = "none") =>
        \A l \in Locations :
           Lower(l) = Lower(lastOp.key) =>
              lastOp.ret = SelectCached(weather_cache, l)

\* C19: over any sequence of put, get and sweep on either cache, every get
\* returns what it would return in the same sequence without the sweeps.
C19_SweepInvisibleToGet ==
    (lastOp.op = "get" /\ lastOp.fault = "none") =>
        lastOp.ret = SelectCached(unswept[lastOp.cache], lastOp.key)

C19_Witness ==
    /\ lastOp.op = "get" /\ lastOp.fault = "none" /\ lastOp.cache = "weather"
    /\ lastOp.ret # None
    /\ Len(weather_cache) = 1 /\ Len(unswept.weather) = 2

\* The call of answer in lastOp has appended exactly one entry, unprocessed
\* and without a response.
LoggedOneEntry ==
    /\ Len(queries) = lastOp.entries + 1
    /\ SubSeq(queries, 1, lastOp.entries) = SubSeq(queries, 1, Len(queries) - 1)
    /\ queries[Len(queries)].id = lastOp.logged
    /\ queries[Len(queries)].query_text = lastOp.query
    /\ queries[Len(queries)].response_text = Null
    /\ ~queries[Len(queries)].processed

\* C20 as stated: every call of answer appends exactly one query-log entry
\* with processed = false before any response is produced, also when the AI
\* services are offline or the rest of the call fails.
C20_AnswerAlwaysLogs ==
    lastOp.op \in {"answering", "answer"} => LoggedOneEntry

\* C20 (amended): a call of answer whose storage access succeeds appends
\* exactly one entry with processed = false before any response is produced,
\* also when the AI services are offline or the rest of the call fails; when
\* the storage layer fails, the call appends nothing and still returns a
\* result.
C20_AnswerLogsUnlessStorageFails ==
    lastOp.op \in {"answering", "answer"} =>
        /\ IF lastOp.fault = "none" THEN LoggedOneEntry
           ELSE Len(queries) = lastOp.entries /\ lastOp.logged = -1
        /\ (lastOp.op = "answer" =>
               ~lastOp.raised /\ "text" \in lastOp.ret.keys)

C20_Witness ==
    /\ lastOp.op = "answer" /\ lastOp.fault = "none"
    /\ lastOp.ret = ApologyResult
    /\ Len(queries) = 2 /\ lastOp.logged = 2
    /\ ~queries[1].processed /\ ~queries[2].processed

\* The rows of cache c stored under key k.
RowsOf(c, k) == SelectSeq(CacheTable(c), LAMBDA r : r.key = k)

Committed(w) == writers[w].pc = "returned" /\ writers[w].outcome = "committed"

\* C21: once concurrent writers have all returned, every cache key one of
\* them wrote holds exactly one entry, with the value of one of the writers
\* of that key, and the appends have received distinct ids, as after the same
\* writes one after the other.
C21_ConcurrentWritesSerialize ==
    (\A w \in Sessions : writers[w].pc = "returned") =>
        /\ \A w \in Sessions :
              (Committed(w) /\ writers[w].call.op \in CacheNames) =>
                 LET rows == RowsOf(writers[w].call.op, writers[w].call.key)
                 IN  /\ Len(rows) = 1
                     /\ \E u \in Sessions :
                           /\ Committed(u)
                           /\ writers[u].call.op = writers[w].call.op
                           /\ writers[u].call.key = writers[w].call.key
                           /\ rows[1].data = JsonDumps(writers[u].call.value)
        /\ \A w, u \in Sessions :
              (w # u /\ Committed(w) /\ Committed(u)
                 /\ writers[w].call.op = "append" /\ writers[u].call.op = "append")
              => writers[w].ret # writers[u].ret
        /\ \A i, j \in 1..Len(queries) : queries[i].id = queries[j].id => i = j

\* C22: a search that runs while the documents are loaded and indexed again
\* finds as many vectors in the index as documents in the list, and every
\* result it returns is the document of the vector it matched: its score is
\* the similarity of the query to that very document.
C22_SearchSeesWholeBuild ==
    (lastOp.op = "search" /\ rag_system.index.built /\ rag_system.documents # <<>>)
    => /\ Len(rag_system.index.vectors) = Len(rag_system.documents)
       /\ \A i \in 1..Len(lastOp.ret) :
             IsScored(lastOp.ret[i]) =>
                lastOp.ret[i].score = Cosine(Embedding(lastOp.query),
                                             Embedding(lastOp.ret[i].content))

\* normalize_L2 scales a vector to unit length unless it is all-zero, which
\* it leaves as it is.
UnitLengthOnceNormalized(v) == Dot(v, v) > 0

AllZero(v) == \A i \in 1..Len(v) : v[i] = 0

\* C23: the index a build leaves holds one vector per document; the vector
\* is another than the document's raw embedding if and only if the raw
\* embedding is all-zero, and every vector of the index has unit length once
\* normalized: none is all-zero.
C23_RandomIffAllZero ==
    lastOp.op = "build_add" =>
        LET docs == rag_system.documents
            raw == get_embeddings([j \in 1..Len(docs) |-> docs[j].content])
            vectors == rag_system.index.vectors
        IN  /\ Len(vectors) = Len(docs)
            /\ \A j \in 1..Len(docs) : (vectors[j] # raw[j]) <=> AllZero(raw[j])
            /\ \A j \in 1..Len(docs) : UnitLengthOnceNormalized(vectors[j])

C23_Witness ==
    /\ lastOp.op = "build_add"
    /\ Len(rag_system.documents) = 3
    /\ rag_system.documents[1] = DocSoilBlack
    /\ rag_system.index.vectors[1] = Embedding(StrSoilBlack)
    /\ rag_system.index.vectors[3] # rag_system.index.vectors[1]

\* The line of one document in the context.
Line(doc) == StrDash \o doc.content \o StrNewline

RECURSIVE Lines(_, _)
\* The lines of the first n documents, one after the other.
Lines(docs, n) == IF n = 0 THEN <<>> ELSE Lines(docs, n - 1) \o Line(docs[n])

\* C24: the context is the header followed by the whole lines of the first n
\* retrieved documents, in the order search returned them, for the n at
\* which the next line would no longer fit the budget (or the documents
\* end): nothing follows the first document that does not fit, and no line
\* is cut.
C24_ContextIsPrefixOfWholeLines ==
    lastOp.op = "context" =>
        \E n \in 0..Len(lastOp.docs) :
           /\ lastOp.ret = StrContextHeader \o Lines(lastOp.docs, n)
           /\ \A m \in 1..n : Len(StrContextHeader \o Lines(lastOp.docs, m))
                                   <= lastOp.max_context_length
           /\ n < Len(lastOp.docs) =>
                 Len(lastOp.ret) + Len(Line(lastOp.docs[n + 1]))
                    > lastOp.max_context_length

\* The first document does not fit and the second one alone would have.
C24_Witness ==
    /\ lastOp.op = "context" /\ lastOp.max_context_length = 57
    /\ Len(lastOp.docs) >= 2
    /\ lastOp.docs[1].content = StrSoilAlluvial
    /\ Len(StrContextHeader) + Len(Line(lastOp.docs[2])) <= lastOp.max_context_length
    /\ lastOp.ret = StrContextHeader

\* C25: for a query classified as irrigation, the context with the weather
\* and irrigation summary appended is no longer than the overall budget
\* (get_context's default maximum).
C25_SummaryWithinBudget ==
    (lastOp.op = "answer" /\ "intent" \in lastOp.ret.keys
       /\ lastOp.ret.intent = "irrigation")
    => Len(lastOp.context) <= DefaultMaxContextLength

\* One of the three data files of the last load was unreadable or malformed.
LoadFaulted == \E i \in 1..Len(rebuild.files) : rebuild.files[i] = Unreadable

\* C26: once a load that met an unreadable or malformed source has returned,
\* the Document Store is empty, whatever the load had appended before the
\* fault; the load raises nothing, and search returns the empty sequence.
C26_FaultyLoadLeavesEmptyStore ==
    /\ (lastOp.op \in {"load_read", "load_append"} => ~lastOp.raised)
    /\ (LoadFaulted /\ rebuild.pc \in {"loaded", "idle"}) =>
          /\ rag_system.documents = <<>>
          /\ (lastOp.op = "search" => lastOp.ret = <<>>)

\* The crop file failed after both soil documents had been appended, and the
\* index of the earlier build is still there.
C26_Witness ==
    /\ lastOp.op = "search" /\ lastOp.top_k = 3 /\ lastOp.ret = <<>>
    /\ rebuild.pc = "idle"
    /\ rebuild.files[1] = <<DocSoilAlluvial, DocSoilBlack>>
    /\ rebuild.files[2] = Unreadable
    /\ rebuild.todo # <<>> /\ Head(rebuild.todo).type = "unreadable"
    /\ rag_system.documents = <<>>
    /\ Len(rag_system.index.vectors) = 4

\* The place of a returned document in the Document Store, which is the order
\* in which the build added the vectors to the index.
Inserted(r) ==
    CHOOSE j \in 1..Len(rag_system.documents) :
        rag_system.documents[j].content = r.content

SameScore(a, b) == ScoreGeq(a.score, b.score) /\ ScoreGeq(b.score, a.score)

\* C27: identical queries against an unchanged index return the identical
\* sequence, and documents with equal scores appear in ascending order of
\* their insertion into the index.  The formula is the second half: of two
\* results with equal scores the one inserted first comes first.
C27_TiesInInsertionOrder ==
    (lastOp.op = "search" /\ lastOp.fault = "none") =>
        \A i, j \in 1..Len(lastOp.ret) :
            (i < j /\ IsScored(lastOp.ret[i]) /\ IsScored(lastOp.ret[j])
                   /\ SameScore(lastOp.ret[i], lastOp.ret[j])) =>
                Inserted(lastOp.ret[i]) < Inserted(lastOp.ret[j])

\* C28: every element search returns, on the degenerate-query and error
\* fallbacks as on the main path, carries a score and a rank, and the ranks
\* along the returned sequence are 1, 2, ..., n.
C28_EveryResultScoredAndRanked ==
    lastOp.op = "search" =>
        \A i \in 1..Len(lastOp.ret) :
            /\ IsScored(lastOp.ret[i])
            /\ "rank" \in DOMAIN lastOp.ret[i]
            /\ lastOp.ret[i].rank = i

\* C29: the processed flag of a query-log entry is monotonic: no operation
\* sets a true flag back to false, and list_unprocessed returns no entry
\* whose flag was true before it ran.
C29_ProcessedIsMonotonic ==
    [][/\ \A i \in 1..Len(queries), j \in 1..Len(queries') :
             (queries[i].processed /\ queries'[j].id = queries[i].id) =>
                 queries'[j].processed
       /\ lastOp'.op = "list" =>
             \A k \in 1..Len(lastOp'.ret), i \in 1..Len(queries) :
                 queries[i].id = lastOp'.ret[k].id => ~queries[i].processed]_vars

\* A response was attached to an entry that already had its flag set, and the
\* entry still has it.
C29_Witness ==
    /\ lastOp.op = "attach" /\ lastOp.again /\ ~lastOp.raised
    /\ lastOp.fault = "none"
    /\ \E i \in 1..Len(queries) :
          /\ queries[i].id = lastOp.id
          /\ queries[i].response_text = lastOp.response
          /\ queries[i].processed
    /\ \E i \in 1..Len(queries) : ~queries[i].processed

\* C30: the reads get (both caches) and list_unprocessed leave the stored
\* state as it was: no row is deleted or modified, expired rows included, and
\* no entry's processed flag changes.
C30_ReadsLeaveStateUnchanged ==
    [][lastOp'.op \in {"get", "list"} => db' = db]_vars

\* A get that missed because the only row of its key had expired, with the
\* expired row still in the table.
C30_Witness ==
    /\ lastOp.op = "get" /\ lastOp.cache = "weather" /\ lastOp.fault = "none"
    /\ lastOp.ret = None
    /\ \E i \in 1..Len(weather_cache) :
          weather_cache[i].key = lastOp.key /\ Expired(weather_cache[i])
    /\ \E i \in 1..Len(queries) : ~queries[i].processed

====
